---- MODULE Spec2Model ----
(***************************************************************************)
(* Model of practice/content_moderation_system.cpp: the AVL dictionary of  *)
(* banned words, the KMP pattern matcher, the trust graph, the scoring     *)
(* loop of main and the review queue.                                      *)
(*                                                                         *)
(* A std::string is a sequence of character codes (ASCII), so that         *)
(* operator<, ::tolower and operator>> are computed as the library         *)
(* computes them.  C++ indices are kept 0-based; At(s, i) reads s[i].      *)
(***************************************************************************)
EXTENDS Integers, Sequences, FiniteSets

VARIABLES
    \* --- dictionary driver: insertAVL / searchAVL on one tree
    root,          \* AVLNode* : the tree
    prevRoot,      \* the tree before the last insertAVL call
    lastKey,       \* the key of the last insertAVL call (NoKey before any)
    inserted,      \* history: the set of keys passed to insertAVL so far
    query,         \* the key of the last searchAVL call (NoKey before any)
    found,         \* the result of the last searchAVL call
    \* --- one call findPatternOccurrences(text, pattern), loop by loop
    text,
    pattern,
    kpc,           \* where the call is: "call", "lps", "match", "done" ("idle": no call)
    lpsFrame,      \* computeLPS's locals: lps, len, i
    findFrame,     \* findPatternOccurrences's locals: lps, i, j, occurrences
    \* --- main
    input,         \* what main is given: words, edges, userReputation,
                   \* bannedPhrases, posts
    pc,            \* "main": main is running, "done": it returned ("idle": not run)
    wi,            \* the loop over words: index of the next word, from 1
    ei,            \* the addEdge calls: index of the next edge, from 1
    pi,            \* the loop over posts: index of the next post, from 1
    bannedWords,   \* AVLNode* bannedWords
    adj,           \* socialGraph.adj : map<string, vector<string>>
    flaggedQueue,  \* priority_queue<pair<int, FlaggedPost>>, entries in push order
    scored,        \* history: the locals user, content, severity, isBot, rep at
                   \* the end of each iteration of the loop over posts
    report,        \* the FlaggedPosts printed, in order
    \* --- graph driver: addEdge / degree on one Graph, whose adj is adj above
    prevAdj,       \* adj before the last call
    lastCall,      \* the last call: its name and arguments (NoCall before any)
    result,        \* what the last degree call returned
    mentioned,     \* history: the users passed to addEdge so far
    ncalls         \* history: the number of addEdge calls so far

dictVars == <<root, prevRoot, lastKey, inserted, query, found>>

kmpVars == <<text, pattern, kpc, lpsFrame, findFrame>>

mainVars == <<input, pc, wi, ei, pi, bannedWords, adj, flaggedQueue, scored, report>>

graphVars == <<prevAdj, lastCall, result, mentioned, ncalls>>

vars == <<root, prevRoot, lastKey, inserted, query, found,
          text, pattern, kpc, lpsFrame, findFrame,
          input, pc, wi, ei, pi, bannedWords, adj, flaggedQueue, scored, report,
          prevAdj, lastCall, result, mentioned, ncalls>>

-----------------------------------------------------------------------------
(* Bounds of the model *)

\* most distinct words the dictionary driver inserts
MaxDict == 5

\* longest text and longest pattern handed to the pattern matcher
MaxTextLen == 4

MaxPatLen == 3

\* most posts main is given in the reference configuration
MaxPosts == 4

\* most addEdge calls the graph driver makes
MaxEdges == 3

\* longest post content in the small configurations
MaxContentLen == 4

-----------------------------------------------------------------------------
(* std::string *)

\* s[i] of a std::string: s[s.size()] is the terminating '\0'
At(s, i) == IF i = Len(s) THEN 0 ELSE s[i + 1]

\* all strings over an alphabet, up to a length
Strings(alphabet, maxLen) == UNION { [1..n -> alphabet] : n \in 0..maxLen }

Max(a, b) == IF a > b THEN a ELSE b

Min(a, b) == IF a < b THEN a ELSE b

\* std::string operator< : lexicographic on the character codes, a proper
\* prefix being smaller
StrLess(a, b) ==
    \E k \in 0..Min(Len(a), Len(b)) :
        /\ \A i \in 1..k : a[i] = b[i]
        /\ \/ (k = Len(a) /\ k < Len(b))
           \/ (k < Len(a) /\ k < Len(b) /\ a[k + 1] < b[k + 1])

\* a value no key equals
NoKey == <<0>>

\* the words the dictionary driver draws from:
\* "", "A", "a", "aa", "ab", "b", "ba"
DictWords ==
    { <<>>, <<65>>, <<97>>, <<97, 97>>, <<97, 98>>, <<98>>, <<98, 97>> }

-----------------------------------------------------------------------------
(* AVL tree *)

NULL == [isNull |-> TRUE]

\* AVLNode(string k) : key(k), left(nullptr), right(nullptr), height(1)
AVLNode(k) == [key |-> k, left |-> NULL, right |-> NULL, height |-> 1]

getHeight(node) == IF node = NULL THEN 0 ELSE node.height

getBalance(node) ==
    IF node = NULL THEN 0 ELSE getHeight(node.left) - getHeight(node.right)

\* the rotation with y hung on the wrong side of x
rightRotateMirror(y) ==
    LET x  == y.left
        T2 == x.right
        y1 == [y EXCEPT !.left = T2]
        y2 == [y1 EXCEPT !.height = Max(getHeight(y1.left), getHeight(y1.right)) + 1]
        x1 == [x EXCEPT !.left = y2]
    IN  [x1 EXCEPT !.height = Max(getHeight(x1.left), getHeight(x1.right)) + 1]

rightRotate(y) ==
    LET x  == y.left
        T2 == x.right
        y1 == [y EXCEPT !.left = T2]
        y2 == [y1 EXCEPT !.height = Max(getHeight(y1.left), getHeight(y1.right)) + 1]
        x1 == [x EXCEPT !.right = y2]
    IN  [x1 EXCEPT !.height = Max(getHeight(x1.left), getHeight(x1.right)) + 1]

\* the rotation that recomputes the height of the new root y before that of x
leftRotateRootFirst(x) ==
    LET y  == x.right
        T2 == y.left
        x1 == [x EXCEPT !.right = T2]
        y1 == [y EXCEPT !.left = x1]
        y2 == [y1 EXCEPT !.height = Max(getHeight(y1.left), getHeight(y1.right)) + 1]
        x2 == [x1 EXCEPT !.height = Max(getHeight(x1.left), getHeight(x1.right)) + 1]
    IN  [y2 EXCEPT !.left = x2]

leftRotate(x) ==
    LET y  == x.right
        T2 == y.left
        x1 == [x EXCEPT !.right = T2]
        x2 == [x1 EXCEPT !.height = Max(getHeight(x1.left), getHeight(x1.right)) + 1]
        y1 == [y EXCEPT !.left = x2]
    IN  [y1 EXCEPT !.height = Max(getHeight(y1.left), getHeight(y1.right)) + 1]

\* steps 2-4 with the two double-rotation cases treated as single rotations
rebalanceSingleOnly(node0, key) ==
    LET node == [node0 EXCEPT
                   !.height = 1 + Max(getHeight(node0.left), getHeight(node0.right))]
        balance == getBalance(node)
    IN  IF balance > 1 THEN rightRotate(node)
        ELSE IF balance < -1 THEN leftRotate(node)
        ELSE node

\* steps 2-4 of insertAVL, on the node whose child has just been replaced
rebalance(node0, key) ==
    LET node == [node0 EXCEPT
                   !.height = 1 + Max(getHeight(node0.left), getHeight(node0.right))]
        balance == getBalance(node)
    IN  IF balance > 1 /\ StrLess(key, node.left.key) THEN rightRotate(node)
        ELSE IF balance < -1 /\ StrLess(node.right.key, key) THEN leftRotate(node)
        ELSE IF balance > 1 /\ StrLess(node.left.key, key)
             THEN rightRotate([node EXCEPT !.left = leftRotate(node.left)])
        ELSE IF balance < -1 /\ StrLess(key, node.right.key)
             THEN leftRotate([node EXCEPT !.right = rightRotate(node.right)])
        ELSE node

\* insertAVL with the duplicate test missing: an equal key goes to the right
RECURSIVE insertAVLDup(_, _)
insertAVLDup(node, key) ==
    IF node = NULL THEN AVLNode(key)
    ELSE IF StrLess(key, node.key)
         THEN rebalance([node EXCEPT !.left = insertAVLDup(node.left, key)], key)
    ELSE rebalance([node EXCEPT !.right = insertAVLDup(node.right, key)], key)

RECURSIVE insertAVL(_, _)
insertAVL(node, key) ==
    IF node = NULL THEN AVLNode(key)
    ELSE IF StrLess(key, node.key)
         THEN rebalance([node EXCEPT !.left = insertAVL(node.left, key)], key)
    ELSE IF StrLess(node.key, key)
         THEN rebalance([node EXCEPT !.right = insertAVL(node.right, key)], key)
    ELSE node

\* searchAVL that descends to the right on a smaller key
RECURSIVE searchAVLWrongSide(_, _)
searchAVLWrongSide(node, key) ==
    IF node = NULL THEN FALSE
    ELSE IF key = node.key THEN TRUE
    ELSE IF StrLess(key, node.key) THEN searchAVLWrongSide(node.right, key)
    ELSE searchAVLWrongSide(node.left, key)

RECURSIVE searchAVL(_, _)
searchAVL(node, key) ==
    IF node = NULL THEN FALSE
    ELSE IF key = node.key THEN TRUE
    ELSE IF StrLess(key, node.key) THEN searchAVL(node.left, key)
    ELSE searchAVL(node.right, key)

-----------------------------------------------------------------------------
(* KMPStringMatcher *)

\* vector<int> lps(m, 0)
Zeros(m) == [k \in 1..m |-> 0]

\* the loop body that falls back to lps[len], not lps[len - 1]
computeLPSBodyOffByOne(pat, f) ==
    IF At(pat, f.i) = At(pat, f.len)
    THEN [lps |-> [f.lps EXCEPT ![f.i + 1] = f.len + 1],
          len |-> f.len + 1,
          i   |-> f.i + 1]
    ELSE IF f.len # 0
         THEN [f EXCEPT !.len = f.lps[f.len + 1]]
         ELSE [f EXCEPT !.lps = [f.lps EXCEPT ![f.i + 1] = 0], !.i = f.i + 1]

\* the loop body that falls back to len = 0 at once
computeLPSBodyReset(pat, f) ==
    IF At(pat, f.i) = At(pat, f.len)
    THEN [lps |-> [f.lps EXCEPT ![f.i + 1] = f.len + 1],
          len |-> f.len + 1,
          i   |-> f.i + 1]
    ELSE IF f.len # 0
         THEN [f EXCEPT !.len = 0]
         ELSE [f EXCEPT !.lps = [f.lps EXCEPT ![f.i + 1] = 0], !.i = f.i + 1]

\* one iteration of computeLPS's loop, on its locals f = [lps, len, i]
computeLPSBody(pat, f) ==
    IF At(pat, f.i) = At(pat, f.len)
    THEN [lps |-> [f.lps EXCEPT ![f.i + 1] = f.len + 1],
          len |-> f.len + 1,
          i   |-> f.i + 1]
    ELSE IF f.len # 0
         THEN [f EXCEPT !.len = f.lps[(f.len - 1) + 1]]
         ELSE [f EXCEPT !.lps = [f.lps EXCEPT ![f.i + 1] = 0], !.i = f.i + 1]

computeLPSEnter(pat) == [lps |-> Zeros(Len(pat)), len |-> 0, i |-> 1]

RECURSIVE computeLPSLoop(_, _)
computeLPSLoop(pat, f) ==
    IF f.i < Len(pat) THEN computeLPSLoop(pat, computeLPSBody(pat, f)) ELSE f

computeLPS(pat) == computeLPSLoop(pat, computeLPSEnter(pat)).lps

\* the loop body that restarts the pattern at 0 after a full match
findBodyRestart(txt, pat, f) ==
    LET n  == Len(txt)
        m  == Len(pat)
        eq == At(pat, f.j) = At(txt, f.i)
        i1 == IF eq THEN f.i + 1 ELSE f.i
        j1 == IF eq THEN f.j + 1 ELSE f.j
    IN  IF j1 = m
        THEN [f EXCEPT !.i = i1, !.j = 0,
                       !.occurrences = Append(f.occurrences, i1 - j1)]
        ELSE IF i1 < n /\ At(pat, j1) # At(txt, i1)
             THEN IF j1 # 0
                  THEN [f EXCEPT !.i = i1, !.j = f.lps[(j1 - 1) + 1]]
                  ELSE [f EXCEPT !.i = i1 + 1, !.j = j1]
             ELSE [f EXCEPT !.i = i1, !.j = j1]

\* the loop body that on a mismatch goes back in the text to the character
\* after the start of the failed match and restarts the pattern
findBodyBacktrack(txt, pat, f) ==
    LET n  == Len(txt)
        m  == Len(pat)
        eq == At(pat, f.j) = At(txt, f.i)
        i1 == IF eq THEN f.i + 1 ELSE f.i
        j1 == IF eq THEN f.j + 1 ELSE f.j
    IN  IF j1 = m
        THEN [f EXCEPT !.i = i1, !.j = f.lps[(j1 - 1) + 1],
                       !.occurrences = Append(f.occurrences, i1 - j1)]
        ELSE IF i1 < n /\ At(pat, j1) # At(txt, i1)
             THEN IF j1 # 0
                  THEN [f EXCEPT !.i = i1 - j1 + 1, !.j = 0]
                  ELSE [f EXCEPT !.i = i1 + 1, !.j = j1]
             ELSE [f EXCEPT !.i = i1, !.j = j1]

\* one iteration of findPatternOccurrences's loop, on its locals
\* f = [lps, i, j, occurrences]
findBody(txt, pat, f) ==
    LET n  == Len(txt)
        m  == Len(pat)
        eq == At(pat, f.j) = At(txt, f.i)
        i1 == IF eq THEN f.i + 1 ELSE f.i
        j1 == IF eq THEN f.j + 1 ELSE f.j
    IN  IF j1 = m
        THEN [f EXCEPT !.i = i1, !.j = f.lps[(j1 - 1) + 1],
                       !.occurrences = Append(f.occurrences, i1 - j1)]
        ELSE IF i1 < n /\ At(pat, j1) # At(txt, i1)
             THEN IF j1 # 0
                  THEN [f EXCEPT !.i = i1, !.j = f.lps[(j1 - 1) + 1]]
                  ELSE [f EXCEPT !.i = i1 + 1, !.j = j1]
             ELSE [f EXCEPT !.i = i1, !.j = j1]

\* the locals with the pattern index starting at 1
findEnterAtOne(lps) == [lps |-> lps, i |-> 0, j |-> 1, occurrences |-> <<>>]

\* the locals when the loop is entered (or, for an empty pattern, on return)
findEnter(lps) == [lps |-> lps, i |-> 0, j |-> 0, occurrences |-> <<>>]

\* the elements one iteration of computeLPS's loop reads or writes, as
\* <<array, index>>: pattern[i] and pattern[len], then lps[i] or lps[len - 1]
computeLPSAccesses(pat, f) ==
    {<<"pattern", f.i>>, <<"pattern", f.len>>}
      \cup (IF At(pat, f.i) = At(pat, f.len) THEN {<<"lps", f.i>>}
            ELSE IF f.len # 0 THEN {<<"lps", f.len - 1>>}
            ELSE {<<"lps", f.i>>})

\* the elements one iteration of findPatternOccurrences's loop reads:
\* pattern[j] and text[i]; then lps[j - 1] after a full match, or else, when
\* i < n, pattern[j] and text[i] again and lps[j - 1] on a mismatch with j # 0
findAccesses(txt, pat, f) ==
    LET n  == Len(txt)
        m  == Len(pat)
        eq == At(pat, f.j) = At(txt, f.i)
        i1 == IF eq THEN f.i + 1 ELSE f.i
        j1 == IF eq THEN f.j + 1 ELSE f.j
    IN  {<<"pattern", f.j>>, <<"text", f.i>>}
          \cup (IF j1 = m THEN {<<"lps", j1 - 1>>}
                ELSE IF i1 < n
                     THEN {<<"pattern", j1>>, <<"text", i1>>}
                            \cup (IF At(pat, j1) # At(txt, i1) /\ j1 # 0
                                  THEN {<<"lps", j1 - 1>>}
                                  ELSE {})
                     ELSE {})

RECURSIVE findLoop(_, _, _)
findLoop(txt, pat, f) ==
    IF f.i < Len(txt) THEN findLoop(txt, pat, findBody(txt, pat, f)) ELSE f

\* the matcher for which the empty pattern matches at every offset
findEmptyMatchesEverywhere(txt, pat) ==
    IF Len(pat) = 0 THEN [k \in 1..(Len(txt) + 1) |-> k - 1]
    ELSE findLoop(txt, pat, findEnter(computeLPS(pat))).occurrences

findPatternOccurrences(txt, pat) ==
    IF Len(pat) = 0 THEN findEnter(<<>>).occurrences
    ELSE findLoop(txt, pat, findEnter(computeLPS(pat))).occurrences

containsPattern(txt, pat) == findPatternOccurrences(txt, pat) # <<>>

-----------------------------------------------------------------------------
(* Graph *)

\* map::operator[] : the map after mp[u], which adds u with an empty vector
\* when u is no key yet
mapIndex(mp, u) ==
    [x \in (DOMAIN mp) \cup {u} |-> IF x \in DOMAIN mp THEN mp[x] ELSE <<>>]

\* addEdge that records the edge at u only
addEdgeOneWay(g, u, v) ==
    LET g1 == mapIndex(g, u)
    IN  [g1 EXCEPT ![u] = Append(@, v)]

\* addEdge that gives v itself, not u, as its new neighbor
addEdgeSameEnd(g, u, v) ==
    LET g1 == mapIndex(g, u)
        g2 == [g1 EXCEPT ![u] = Append(@, v)]
        g3 == mapIndex(g2, v)
    IN  [g3 EXCEPT ![v] = Append(@, v)]

\* the graph's adj after addEdge(u, v)
addEdge(g, u, v) ==
    LET g1 == mapIndex(g, u)
        g2 == [g1 EXCEPT ![u] = Append(@, v)]
        g3 == mapIndex(g2, v)
    IN  [g3 EXCEPT ![v] = Append(@, u)]

\* what degree(u) returns
degree(g, u) == Len(mapIndex(g, u)[u])

\* the graph's adj after degree(u)
degreeEffect(g, u) == mapIndex(g, u)

-----------------------------------------------------------------------------
(* Scoring *)

\* getPriority with the thresholds exclusive
getPriorityExclusive(score) ==
    IF score > 6 THEN "HIGH" ELSE IF score > 3 THEN "MEDIUM" ELSE "LOW"

getPriority(score) ==
    IF score >= 6 THEN "HIGH" ELSE IF score >= 3 THEN "MEDIUM" ELSE "LOW"

\* std::isspace in the "C" locale, which operator>> skips and stops at
isspace(c) == c \in {9, 10, 11, 12, 13, 32}

\* tolower that leaves every character as it is
tolowerKeep(c) == c

\* ::tolower in the "C" locale
tolower(c) == IF c \in 65..90 THEN c + 32 ELSE c

\* transform(s.begin(), s.end(), s.begin(), ::tolower)
toLowerStr(s) == [k \in 1..Len(s) |-> tolower(s[k])]

\* the first position from p on that holds no white space (Len(s) + 1: none)
RECURSIVE skipSpace(_, _)
skipSpace(s, p) ==
    IF p <= Len(s) /\ isspace(s[p]) THEN skipSpace(s, p + 1) ELSE p

\* the first position from p on that holds white space (Len(s) + 1: none)
RECURSIVE wordEnd(_, _)
wordEnd(s, p) ==
    IF p <= Len(s) /\ ~isspace(s[p]) THEN wordEnd(s, p + 1) ELSE p

\* the words that while (ss >> word) reads from position p on
RECURSIVE streamWords(_, _)
streamWords(s, p) ==
    LET a == skipSpace(s, p)
    IN  IF a > Len(s) THEN <<>>
        ELSE LET b == wordEnd(s, a)
             IN  <<SubSeq(s, a, b - 1)>> \o streamWords(s, b)

\* lines 326-336: what the loop over the words of content adds to severity
wordSeverity(content, dict) ==
    LET ws == streamWords(content, 1)
    IN  Cardinality({ k \in 1..Len(ws) : searchAVL(dict, toLowerStr(ws[k])) })

\* lines 339-347: what the loop over the phrases adds to severity
phraseSeverity(content, phrases) ==
    LET lowerContent == toLowerStr(content)
    IN  2 * Cardinality({ k \in 1..Len(phrases) :
                            containsPattern(lowerContent, phrases[k]) })

\* an absent user given the reputation 5
reputationOfDefaultFive(reputation, user) ==
    IF user \in DOMAIN reputation THEN reputation[user] ELSE 5

\* line 350
reputationOf(reputation, user) ==
    IF user \in DOMAIN reputation THEN reputation[user] ELSE 0

\* the bot penalty of 1
botSeverityOne(isBot) == IF isBot THEN 1 ELSE 0

\* lines 353-357
botSeverity(isBot) == IF isBot THEN 2 ELSE 0

\* the penalty given up to reputation 5
lowReputationSeverityUpTo(rep) == IF rep <= 5 THEN 1 ELSE 0

\* lines 360-363
lowReputationSeverity(rep) == IF rep < 5 THEN 1 ELSE 0

\* the locals at line 365, after the signals of one post are summed
scorePost(post, dict, phrases, g, reputation) ==
    LET rep   == reputationOf(reputation, post.user)
        isBot == degree(g, post.user) = 0
    IN  [user     |-> post.user,
         content  |-> post.content,
         severity |-> wordSeverity(post.content, dict)
                        + phraseSeverity(post.content, phrases)
                        + botSeverity(isBot)
                        + lowReputationSeverity(rep),
         isBot    |-> isBot,
         rep      |-> rep]

\* a post is flagged whatever its severity
isFlaggedAlways(severity) == severity >= 0

\* line 366
isFlagged(severity) == severity > 0

\* the FlaggedPost that keeps the lower-cased copy of the content
FlaggedPostLowerContent(sc) ==
    [username   |-> sc.user,
     content    |-> toLowerStr(sc.content),
     severity   |-> sc.severity,
     priority   |-> getPriority(sc.severity),
     isBot      |-> sc.isBot,
     reputation |-> sc.rep]

\* line 367: FlaggedPost fp = {user, content, severity, getPriority(severity), isBot, rep}
FlaggedPost(sc) ==
    [username   |-> sc.user,
     content    |-> sc.content,
     severity   |-> sc.severity,
     priority   |-> getPriority(sc.severity),
     isBot      |-> sc.isBot,
     reputation |-> sc.rep]

\* line 368: flaggedQueue.push({severity, fp})
queuePush(q, sc) == Append(q, [first |-> sc.severity, second |-> FlaggedPost(sc)])

\* the queue served first in, first out
queueTopsFifo(q) == IF q = <<>> THEN {} ELSE {1}

\* the entries top() may return: those no entry is greater than.  The pairs
\* compare on the severity first; FlaggedPost has no operator<, so which of
\* several entries of the greatest severity comes first is left open.
queueTops(q) ==
    { k \in 1..Len(q) : \A l \in 1..Len(q) : q[l].first <= q[k].first }

\* the queue without its entry k
queueRemove(q, k) == SubSeq(q, 1, k - 1) \o SubSeq(q, k + 1, Len(q))

-----------------------------------------------------------------------------
(* What the claims measure on a tree, computed from its structure alone *)

RECURSIVE TrueHeight(_)
TrueHeight(t) ==
    IF t = NULL THEN 0 ELSE 1 + Max(TrueHeight(t.left), TrueHeight(t.right))

RECURSIVE InOrder(_)
InOrder(t) ==
    IF t = NULL THEN <<>> ELSE InOrder(t.left) \o <<t.key>> \o InOrder(t.right)

RECURSIVE Balanced(_)
Balanced(t) ==
    \/ t = NULL
    \/ /\ TrueHeight(t.left) - TrueHeight(t.right) \in {-1, 0, 1}
       /\ getBalance(t) \in {-1, 0, 1}
       /\ Balanced(t.left)
       /\ Balanced(t.right)

\* the insertion of key with the heights kept and no rotation made
RECURSIVE PlainInsert(_, _)
PlainInsert(t, key) ==
    IF t = NULL THEN AVLNode(key)
    ELSE LET t1 == IF StrLess(key, t.key)
                     THEN [t EXCEPT !.left = PlainInsert(t.left, key)]
                   ELSE IF StrLess(t.key, key)
                     THEN [t EXCEPT !.right = PlainInsert(t.right, key)]
                   ELSE t
         IN  [t1 EXCEPT !.height = 1 + Max(getHeight(t1.left), getHeight(t1.right))]

StrictlyIncreasing(s) == \A i \in 1..(Len(s) - 1) : StrLess(s[i], s[i + 1])

-----------------------------------------------------------------------------
(* The dictionary driver: any sequence of insertAVL and searchAVL calls *)

\* no dictionary driver
DictIdle ==
    /\ root = NULL
    /\ prevRoot = NULL
    /\ lastKey = NoKey
    /\ inserted = {}
    /\ query = NoKey
    /\ found = FALSE

NoFrame == [none |-> TRUE]

\* no call of the matcher
KmpIdle ==
    /\ text = <<>>
    /\ pattern = <<>>
    /\ kpc = "idle"
    /\ lpsFrame = NoFrame
    /\ findFrame = NoFrame

NoInput == [none |-> TRUE]

\* main not run
MainIdle ==
    /\ input = NoInput
    /\ pc = "idle"
    /\ wi = 1
    /\ ei = 1
    /\ pi = 1
    /\ bannedWords = NULL
    /\ adj = <<>>
    /\ flaggedQueue = <<>>
    /\ scored = <<>>
    /\ report = <<>>

NoCall == [none |-> TRUE]

\* no graph driver
GraphIdle ==
    /\ prevAdj = <<>>
    /\ lastCall = NoCall
    /\ result = 0
    /\ mentioned = {}
    /\ ncalls = 0

InitDict ==
    /\ DictIdle
    /\ KmpIdle
    /\ MainIdle
    /\ GraphIdle

\* root = insertAVL(root, w)
Insert(w) ==
    /\ Cardinality(inserted \cup {w}) <= MaxDict
    /\ root' = insertAVL(root, w)
    /\ prevRoot' = root
    /\ lastKey' = w
    /\ inserted' = inserted \cup {w}
    /\ UNCHANGED <<query, found>>
    /\ UNCHANGED <<kmpVars, mainVars, graphVars>>

\* found = searchAVL(root, w)
Search(w) ==
    /\ query' = w
    /\ found' = searchAVL(root, w)
    /\ UNCHANGED <<root, prevRoot, lastKey, inserted>>
    /\ UNCHANGED <<kmpVars, mainVars, graphVars>>

NextDict ==
    \/ \E w \in DictWords : Insert(w)
    \/ \E w \in DictWords : Search(w)

SpecDict == InitDict /\ [][NextDict]_vars

-----------------------------------------------------------------------------
(* The matcher, one loop iteration at a time, on every small text and pattern *)

KmpAlphabet == {97, 98}

\* longer calls, in which both loops fall back to a match length that is not 0:
\* "aabaaa" in "aabaabaaa", "ababb" in "abababb", "aaa" in "aaaaaa",
\* "abab" in "abababab"
KmpLongCalls ==
    { << <<97, 97, 98, 97, 97, 98, 97, 97, 97>>, <<97, 97, 98, 97, 97, 97>> >>,
      << <<97, 98, 97, 98, 97, 98, 98>>, <<97, 98, 97, 98, 98>> >>,
      << <<97, 97, 97, 97, 97, 97>>, <<97, 97, 97>> >>,
      << <<97, 98, 97, 98, 97, 98, 97, 98>>, <<97, 98, 97, 98>> >> }

KmpCalls ==
    (Strings(KmpAlphabet, MaxTextLen) \X Strings(KmpAlphabet, MaxPatLen))
      \cup KmpLongCalls

InitKMP ==
    /\ DictIdle
    /\ \E call \in KmpCalls : text = call[1] /\ pattern = call[2]
    /\ kpc = "call"
    /\ lpsFrame = NoFrame
    /\ findFrame = NoFrame
    /\ MainIdle
    /\ GraphIdle

\* lines 240-245: the empty pattern returns at once, any other calls computeLPS
FindCall ==
    /\ kpc = "call"
    /\ IF Len(pattern) = 0
       THEN /\ kpc' = "done"
            /\ findFrame' = findEnter(<<>>)
            /\ lpsFrame' = lpsFrame
       ELSE /\ kpc' = "lps"
            /\ lpsFrame' = computeLPSEnter(pattern)
            /\ findFrame' = findFrame
    /\ UNCHANGED <<text, pattern>>
    /\ UNCHANGED <<dictVars, mainVars, graphVars>>

\* lines 223-230, one iteration
LpsIter ==
    /\ kpc = "lps"
    /\ lpsFrame.i < Len(pattern)
    /\ lpsFrame' = computeLPSBody(pattern, lpsFrame)
    /\ UNCHANGED <<text, pattern, kpc, findFrame>>
    /\ UNCHANGED <<dictVars, mainVars, graphVars>>

\* lines 231, 245-246: computeLPS returns, the matching loop is entered
LpsReturn ==
    /\ kpc = "lps"
    /\ ~(lpsFrame.i < Len(pattern))
    /\ kpc' = "match"
    /\ findFrame' = findEnter(lpsFrame.lps)
    /\ UNCHANGED <<text, pattern, lpsFrame>>
    /\ UNCHANGED <<dictVars, mainVars, graphVars>>

\* lines 248-261, one iteration
FindIter ==
    /\ kpc = "match"
    /\ findFrame.i < Len(text)
    /\ findFrame' = findBody(text, pattern, findFrame)
    /\ UNCHANGED <<text, pattern, kpc, lpsFrame>>
    /\ UNCHANGED <<dictVars, mainVars, graphVars>>

\* line 262
FindReturn ==
    /\ kpc = "match"
    /\ ~(findFrame.i < Len(text))
    /\ kpc' = "done"
    /\ UNCHANGED <<text, pattern, lpsFrame, findFrame>>
    /\ UNCHANGED <<dictVars, mainVars, graphVars>>

NextKMP == FindCall \/ LpsIter \/ LpsReturn \/ FindIter \/ FindReturn

SpecKMP == InitKMP /\ [][NextKMP]_vars

\* the call runs on: a single thread executes it, nothing can suspend it
SpecKMPFair == SpecKMP /\ WF_vars(NextKMP)

-----------------------------------------------------------------------------
Keys(t) == { InOrder(t)[i] : i \in 1..Len(InOrder(t)) }

\* C1: after every insertion, starting from the empty tree, every node of the
\* dictionary has |height(left) - height(right)| <= 1, for the heights of the
\* subtrees as they are and for the heights the nodes store.
C1_Balanced == Balanced(root)

\* the insertion of the last word of a full dictionary rotated some subtree
C1_Witness ==
    /\ lastKey # NoKey
    /\ lastKey \notin Keys(prevRoot)
    /\ root # PlainInsert(prevRoot, lastKey)
    /\ Cardinality(inserted) = MaxDict

\* C2: searchAVL returns true for every word that was inserted and false for
\* every word that was never inserted; a search that returned true was for an
\* inserted word.
C2_SearchIffInserted ==
    /\ \A w \in DictWords : searchAVL(root, w) <=> (w \in inserted)
    /\ (query # NoKey /\ found) => query \in inserted

\* the dictionary is full, the last search found its word, and some word of the
\* pool was never inserted
C2_Witness ==
    /\ Cardinality(inserted) = MaxDict
    /\ query \in inserted /\ found
    /\ \E w \in DictWords \ inserted : ~searchAVL(root, w)

\* C3: the in-order traversal of the dictionary is strictly increasing in
\* lexicographic order (sorted, no word twice) and holds exactly the inserted
\* words, whatever the insertion order and the rotations made.
C3_InOrderSorted ==
    /\ StrictlyIncreasing(InOrder(root))
    /\ Keys(root) = inserted

\* the last insertion made the new word the root of a tree that was not empty,
\* which only a double rotation at the root does
C3_Witness ==
    /\ prevRoot # NULL
    /\ lastKey \notin Keys(prevRoot)
    /\ root.key = lastKey
    /\ Len(InOrder(root)) >= 3

\* C4: insertAVL of a word that is already in the tree returns the tree as it
\* was: same shape, same keys at the same places, same stored heights, and so
\* the same search results.
C4_DuplicateNoOp ==
    (lastKey # NoKey /\ lastKey \in Keys(prevRoot)) =>
        /\ root = prevRoot
        /\ \A w \in DictWords : searchAVL(root, w) = searchAVL(prevRoot, w)

\* a word deep in a tree of height 3 was inserted again
C4_Witness ==
    /\ lastKey # NoKey
    /\ lastKey \in Keys(prevRoot)
    /\ lastKey # prevRoot.key
    /\ TrueHeight(prevRoot) = 3

-----------------------------------------------------------------------------
(* main *)

\* what main is given in the source, but for the posts
\* words: "spam", "fake", "scam", "hate"
RefWords ==
    << <<115, 112, 97, 109>>,
       <<102, 97, 107, 101>>,
       <<115, 99, 97, 109>>,
       <<104, 97, 116, 101>> >>

\* "click here", "free money", "urgent action", "limited time"
RefPhrases ==
    << <<99, 108, 105, 99, 107, 32, 104, 101, 114, 101>>,
       <<102, 114, 101, 101, 32, 109, 111, 110, 101, 121>>,
       <<117, 114, 103, 101, 110, 116, 32, 97, 99, 116, 105, 111,
       110>>,
       <<108, 105, 109, 105, 116, 101, 100, 32, 116, 105, 109, 101>> >>

RefReputation ==
    [u \in {"alice", "bob", "charlie"} |->
        IF u = "alice" THEN 10 ELSE IF u = "bob" THEN 3 ELSE 5]

RefEdges == << <<"alice", "bob">>, <<"bob", "charlie">> >>

\* the four posts of the source, in its order
RefPosts ==
    << [user |-> "alice",      \* "this is a great product"
        content |-> <<116, 104, 105, 115, 32, 105, 115, 32, 97, 32, 103, 114,
                      101, 97, 116, 32, 112, 114, 111, 100, 117, 99, 116>>],
       [user |-> "bob",        \* "this is a scam"
        content |-> <<116, 104, 105, 115, 32, 105, 115, 32, 97, 32, 115, 99, 97,
                      109>>],
       [user |-> "botuser",    \* "check out this link"
        content |-> <<99, 104, 101, 99, 107, 32, 111, 117, 116, 32, 116, 104,
                      105, 115, 32, 108, 105, 110, 107>>],
       [user |-> "charlie",    \* "I hate this"
        content |-> <<73, 32, 104, 97, 116, 101, 32, 116, 104, 105, 115>>] >>

\* a post of an unknown user with three phrases and a word:
\* "URGENT ACTION: click here for FREE MONEY scam"
LoudPost ==
    [user |-> "mallory",
     content |-> <<85, 82, 71, 69, 78, 84, 32, 65, 67, 84, 73, 79, 78, 58, 32,
                   99, 108, 105, 99, 107, 32, 104, 101, 114, 101, 32, 102,
                   111, 114, 32, 70, 82, 69, 69, 32, 77, 79, 78, 69, 89, 32,
                   115, 99, 97, 109>>]

PostPool == { RefPosts[k] : k \in 1..Len(RefPosts) } \cup {LoudPost}

\* the source's configuration, with any posts of the pool in any order
RefInputs ==
    { [words |-> RefWords, bannedPhrases |-> RefPhrases,
       userReputation |-> RefReputation, edges |-> RefEdges, posts |-> ps] :
      ps \in UNION { [1..n -> PostPool] : n \in 0..MaxPosts } }

\* small configurations: words "ab", "a", "B"; phrases "a b", "b" or
\* "ab", "ab", ""; users u (reputation 5, one edge), v (4, two edges),
\* w (in no table), x (7, no edge), y (no reputation, one edge); one post
\* with any content over a, A, b and the space
SmallWords == << <<97, 98>>, <<97>>, <<66>> >>

SmallPhrases ==
    { << <<97, 32, 98>>, <<98>> >>, << <<97, 98>>, <<97, 98>>, <<>> >> }

SmallReputation ==
    [u \in {"u", "v", "x"} |-> IF u = "u" THEN 5 ELSE IF u = "v" THEN 4 ELSE 7]

SmallEdges == << <<"u", "v">>, <<"v", "y">> >>

SmallUsers == {"u", "v", "w", "x", "y"}

SmallAlphabet == {97, 65, 98, 32}

SmallInputs ==
    { [words |-> SmallWords, bannedPhrases |-> ph,
       userReputation |-> SmallReputation, edges |-> SmallEdges,
       posts |-> << [user |-> u, content |-> c] >>] :
      ph \in SmallPhrases, u \in SmallUsers,
      c \in Strings(SmallAlphabet, MaxContentLen) }

\* lines 278, 288-291, 296, 312: main's locals before the first loop
Init ==
    /\ DictIdle
    /\ KmpIdle
    /\ input \in RefInputs \cup SmallInputs
    /\ pc = "main"
    /\ wi = 1
    /\ ei = 1
    /\ pi = 1
    /\ bannedWords = NULL
    /\ adj = <<>>
    /\ flaggedQueue = <<>>
    /\ scored = <<>>
    /\ report = <<>>
    /\ GraphIdle

\* lines 281-284, one iteration
InsertWord ==
    /\ pc = "main"
    /\ wi <= Len(input.words)
    /\ bannedWords' = insertAVL(bannedWords, input.words[wi])
    /\ wi' = wi + 1
    /\ UNCHANGED <<input, pc, ei, pi, adj, flaggedQueue, scored, report>>
    /\ UNCHANGED <<dictVars, kmpVars, graphVars>>

\* lines 297-298, one call
AddEdge ==
    /\ pc = "main"
    /\ wi > Len(input.words)
    /\ ei <= Len(input.edges)
    /\ adj' = addEdge(adj, input.edges[ei][1], input.edges[ei][2])
    /\ ei' = ei + 1
    /\ UNCHANGED <<input, pc, wi, pi, bannedWords, flaggedQueue, scored, report>>
    /\ UNCHANGED <<dictVars, kmpVars, graphVars>>

\* lines 320-371, one iteration
ProcessPost ==
    /\ pc = "main"
    /\ wi > Len(input.words)
    /\ ei > Len(input.edges)
    /\ pi <= Len(input.posts)
    /\ \E sc \in {scorePost(input.posts[pi], bannedWords, input.bannedPhrases,
                             adj, input.userReputation)} :
           /\ adj' = degreeEffect(adj, input.posts[pi].user)
           /\ flaggedQueue' = IF isFlagged(sc.severity)
                                 THEN queuePush(flaggedQueue, sc)
                                 ELSE flaggedQueue
           /\ scored' = Append(scored, sc)
    /\ pi' = pi + 1
    /\ UNCHANGED <<input, pc, wi, ei, bannedWords, report>>
    /\ UNCHANGED <<dictVars, kmpVars, graphVars>>

\* the loop over posts has ended
Reporting ==
    /\ pc = "main"
    /\ wi > Len(input.words)
    /\ ei > Len(input.edges)
    /\ pi > Len(input.posts)

\* lines 375-379, one iteration
PrintTop ==
    /\ Reporting
    /\ flaggedQueue # <<>>
    /\ \E k \in queueTops(flaggedQueue) :
          /\ report' = Append(report, flaggedQueue[k].second)
          /\ flaggedQueue' = queueRemove(flaggedQueue, k)
    /\ UNCHANGED <<input, pc, wi, ei, pi, bannedWords, adj, scored>>
    /\ UNCHANGED <<dictVars, kmpVars, graphVars>>

\* line 381
Return ==
    /\ Reporting
    /\ flaggedQueue = <<>>
    /\ pc' = "done"
    /\ UNCHANGED <<input, wi, ei, pi, bannedWords, adj, flaggedQueue, scored, report>>
    /\ UNCHANGED <<dictVars, kmpVars, graphVars>>

Next == InsertWord \/ AddEdge \/ ProcessPost \/ PrintTop \/ Return

Spec == Init /\ [][Next]_vars

-----------------------------------------------------------------------------
\* pattern occurs in text at offset i
MatchesAt(txt, pat, i) ==
    /\ i \in 0..(Len(txt) - Len(pat))
    /\ \A k \in 1..Len(pat) : txt[i + k] = pat[k]

\* occ lists exactly the offsets where pattern occurs, increasing, each once
ExactOccurrences(occ, txt, pat) ==
    /\ \A k \in 1..(Len(occ) - 1) : occ[k] < occ[k + 1]
    /\ { occ[k] : k \in 1..Len(occ) } = { i \in 0..Len(txt) : MatchesAt(txt, pat, i) }

\* C5: for every text and every non-empty pattern, findPatternOccurrences
\* returns exactly the offsets i with text[i..i+len(pattern)) = pattern, in
\* increasing order and each once, overlapping matches included ("aa" in
\* "aaaa" gives 0, 1, 2), and containsPattern says whether there is one.
C5_ExactOccurrences ==
    (kpc = "done" /\ pattern # <<>>) =>
        /\ ExactOccurrences(findFrame.occurrences, text, pattern)
        /\ findPatternOccurrences(text, pattern) = findFrame.occurrences
        /\ containsPattern(text, pattern) <=>
              (\E i \in 0..Len(text) : MatchesAt(text, pattern, i))
        /\ (text = <<97, 97, 97, 97>> /\ pattern = <<97, 97>>) =>
              findFrame.occurrences = <<0, 1, 2>>

\* "aa" was searched in "aaaa": three overlapping matches
C5_Witness ==
    /\ kpc = "done"
    /\ text = <<97, 97, 97, 97>>
    /\ pattern = <<97, 97>>
    /\ findFrame.occurrences = <<0, 1, 2>>

\* C6: for every text, the empty one included, the empty pattern gives the
\* empty occurrence list and containsPattern false.
C6_EmptyPattern ==
    (kpc # "idle" /\ pattern = <<>>) =>
        /\ findPatternOccurrences(text, pattern) = <<>>
        /\ ~containsPattern(text, pattern)
        /\ kpc = "done" => findFrame.occurrences = <<>>
        /\ kpc \in {"call", "done"}

\* the empty pattern was searched in a text that is not empty and returned
C6_Witness ==
    /\ kpc = "done"
    /\ pattern = <<>>
    /\ Len(text) = MaxTextLen
    /\ findFrame.occurrences = <<>>

-----------------------------------------------------------------------------
(* What the claims say of a post, stated on main's input alone *)

\* the banned words, as a set
Dictionary == { input.words[k] : k \in 1..Len(input.words) }

\* the positions where a white-space separated token of c starts
TokenStarts(c) ==
    { a \in 1..Len(c) : ~isspace(c[a]) /\ (a = 1 \/ isspace(c[a - 1])) }

\* the token of c that starts at a: the longest run without white space
TokenAt(c, a) ==
    LET b == CHOOSE e \in a..Len(c) :
                 /\ \A k \in a..e : ~isspace(c[k])
                 /\ e = Len(c) \/ isspace(c[e + 1])
    IN  SubSeq(c, a, b)

\* the tokens whose lower-cased form is a banned word, repeats counted
WordHits(c) ==
    LET dict == Dictionary
    IN  Cardinality({ a \in TokenStarts(c) : toLowerStr(TokenAt(c, a)) \in dict })

\* the entries of the phrase list that occur in the lower-cased content, an
\* entry counted once however often it occurs; the empty entry occurs nowhere
PhraseHits(c) ==
    LET lc == toLowerStr(c)
    IN  Cardinality({ k \in 1..Len(input.bannedPhrases) :
                        /\ input.bannedPhrases[k] # <<>>
                        /\ \E i \in 0..Len(lc) :
                              MatchesAt(lc, input.bannedPhrases[k], i) })

\* the ends of edges that are the user
GraphDegree(u) ==
    Cardinality({ e \in (1..Len(input.edges)) \X {1, 2} : input.edges[e[1]][e[2]] = u })

Reputation(u) ==
    IF u \in DOMAIN input.userReputation THEN input.userReputation[u] ELSE 0

ExpectedSeverity(post) ==
    WordHits(post.content)
      + 2 * PhraseHits(post.content)
      + (IF GraphDegree(post.user) = 0 THEN 2 ELSE 0)
      + (IF Reputation(post.user) < 5 THEN 1 ELSE 0)

\* the entries of the queue and of the report
Entries == [k \in 1..Len(flaggedQueue) |-> flaggedQueue[k].second] \o report

\* how many places of the sequence s hold x
Count(s, x) == Cardinality({ k \in 1..Len(s) : s[k] = x })

\* the severities of a sequence of FlaggedPosts never go up
NonIncreasing(s) == \A k \in 1..(Len(s) - 1) : s[k].severity >= s[k + 1].severity

\* C7: the severity of every post is the number of its tokens whose
\* lower-cased form is a banned word, plus 2 for every entry of the phrase
\* list found in the lower-cased content, plus 2 when the author has no edge,
\* plus 1 when the author's reputation (0 when absent) is below 5.
C7_Severity ==
    \A k \in 1..Len(scored) :
        /\ scored[k].user = input.posts[k].user
        /\ scored[k].content = input.posts[k].content
        /\ scored[k].severity = ExpectedSeverity(input.posts[k])

\* a post with a banned word twice and a phrase hit, by an author with no
\* edge and no reputation, was scored 2 + 2 + 2 + 1 or more
C7_Witness ==
    /\ Len(scored) = 1
    /\ WordHits(scored[1].content) = 2
    /\ PhraseHits(scored[1].content) >= 1
    /\ scored[1].isBot
    /\ scored[1].user \notin DOMAIN input.userReputation
    /\ scored[1].severity >= 7

\* C8: the priority of every flagged post follows from its severity alone:
\* HIGH from 6, MEDIUM for 3 to 5, LOW for 1 and 2; and a post of severity 0
\* is in neither the queue nor the report.
C8_PriorityTiers ==
    /\ \A k \in 1..Len(Entries) :
          LET e == Entries[k]
          IN  /\ e.severity >= 1
              /\ e.severity >= 6 => e.priority = "HIGH"
              /\ e.severity \in 3..5 => e.priority = "MEDIUM"
              /\ e.severity \in 1..2 => e.priority = "LOW"
    /\ \A k \in 1..Len(scored) :
          scored[k].severity = 0 =>
            \A l \in 1..Len(Entries) :
                ~(/\ Entries[l].username = scored[k].user
                  /\ Entries[l].content = scored[k].content)
    /\ Len(Entries) = Cardinality({ k \in 1..Len(scored) : scored[k].severity > 0 })

\* a run that scored a post 0 reported a HIGH, a MEDIUM and a LOW post, the
\* HIGH one of severity 6 or more and the MEDIUM one of severity 3
C8_Witness ==
    /\ pc = "done"
    /\ \E k \in 1..Len(scored) : scored[k].severity = 0
    /\ \E k \in 1..Len(report) :
          report[k].priority = "HIGH" /\ report[k].severity >= 6
    /\ \E k \in 1..Len(report) :
          report[k].priority = "MEDIUM" /\ report[k].severity = 3
    /\ \E k \in 1..Len(report) : report[k].priority = "LOW"

\* C9: every pop returned a post of the greatest severity then in the queue:
\* no post still queued is more severe than one already reported, and the
\* report is in non-increasing severity order.
C9_MaxFirst ==
    /\ NonIncreasing(report)
    /\ \A k \in 1..Len(report) :
          \A l \in 1..Len(flaggedQueue) :
              /\ flaggedQueue[l].first <= report[k].severity
              /\ flaggedQueue[l].first = flaggedQueue[l].second.severity

\* a post pushed last was reported first, ahead of two less severe posts of
\* which one is still queued
C9_Witness ==
    /\ Len(scored) = MaxPosts
    /\ Len(report) = 2
    /\ Len(flaggedQueue) >= 1
    /\ report[1].username = scored[Len(scored)].user
    /\ report[1].severity > report[2].severity
    /\ report[2].severity > flaggedQueue[1].first

\* C10: the posts of severity above 0 are, each as often as it was posted, in
\* the queue or the report, and no other post is; when main returns the queue
\* is empty, so the report holds exactly the flagged posts, each once.
C10_ExactlyFlagged ==
    /\ \A k \in 1..Len(scored) :
          LET fp == FlaggedPost(scored[k])
          IN  Count(Entries, fp) =
                IF scored[k].severity > 0
                THEN Cardinality({ l \in 1..Len(scored) : scored[l] = scored[k] })
                ELSE 0
    /\ \A l \in 1..Len(Entries) :
          \E k \in 1..Len(scored) :
              scored[k].severity > 0 /\ Entries[l] = FlaggedPost(scored[k])
    /\ pc = "done" =>
          /\ flaggedQueue = <<>>
          /\ Len(scored) = Len(input.posts)
          /\ Len(report) = Cardinality({ k \in 1..Len(scored) : scored[k].severity > 0 })

\* main returned after four posts, of which one was posted twice and reported
\* twice and one was not flagged
C10_Witness ==
    /\ pc = "done"
    /\ Len(scored) = MaxPosts
    /\ \E k \in 1..Len(scored) : scored[k].severity = 0
    /\ \E k, l \in 1..Len(report) : k # l /\ report[k] = report[l]
    /\ flaggedQueue = <<>>

-----------------------------------------------------------------------------
(* The graph driver: any sequence of addEdge and degree calls on one Graph *)

GraphUsers == {"a", "b", "c"}

InitGraph ==
    /\ DictIdle
    /\ KmpIdle
    /\ MainIdle
    /\ GraphIdle

\* socialGraph.addEdge(u, v)
CallAddEdge(u, v) ==
    /\ ncalls < MaxEdges
    /\ adj' = addEdge(adj, u, v)
    /\ prevAdj' = adj
    /\ lastCall' = [name |-> "addEdge", u |-> u, v |-> v]
    /\ mentioned' = mentioned \cup {u, v}
    /\ ncalls' = ncalls + 1
    /\ UNCHANGED result
    /\ UNCHANGED <<input, pc, wi, ei, pi, bannedWords, flaggedQueue, scored, report>>
    /\ UNCHANGED <<dictVars, kmpVars>>

\* socialGraph.degree(u)
CallDegree(u) ==
    /\ result' = degree(adj, u)
    /\ adj' = degreeEffect(adj, u)
    /\ prevAdj' = adj
    /\ lastCall' = [name |-> "degree", u |-> u]
    /\ UNCHANGED <<mentioned, ncalls>>
    /\ UNCHANGED <<input, pc, wi, ei, pi, bannedWords, flaggedQueue, scored, report>>
    /\ UNCHANGED <<dictVars, kmpVars>>

NextGraph ==
    \/ \E u, v \in GraphUsers : CallAddEdge(u, v)
    \/ \E u \in GraphUsers : CallDegree(u)

SpecGraph == InitGraph /\ [][NextGraph]_vars

\* C11: addEdge(a, b) for two different users, after any calls, makes
\* degree(a) and degree(b) each greater by exactly 1; addEdge(a, a) puts a
\* twice in its own list and makes degree(a) greater by 2; a user never passed
\* to addEdge has degree 0.
C11_DegreeStep ==
    /\ lastCall # NoCall =>
          (lastCall.name = "addEdge" =>
             IF lastCall.u # lastCall.v
             THEN /\ degree(adj, lastCall.u) = degree(prevAdj, lastCall.u) + 1
                  /\ degree(adj, lastCall.v) = degree(prevAdj, lastCall.v) + 1
             ELSE degree(adj, lastCall.u) = degree(prevAdj, lastCall.u) + 2)
    /\ \A u \in GraphUsers \ mentioned : degree(adj, u) = 0

\* the last of several addEdge calls joined two different users who both had
\* neighbors already, while a third user was never passed to addEdge
C11_Witness ==
    /\ lastCall # NoCall
    /\ lastCall.name = "addEdge"
    /\ lastCall.u # lastCall.v
    /\ degree(prevAdj, lastCall.u) >= 1
    /\ degree(prevAdj, lastCall.v) >= 1
    /\ degree(adj, lastCall.u) = degree(prevAdj, lastCall.u) + 1
    /\ GraphUsers \ mentioned # {}

\* C11 as it is worded, for any users a and b, the same user twice included
C11_AnyUsers ==
    /\ lastCall # NoCall =>
          (lastCall.name = "addEdge" =>
             /\ degree(adj, lastCall.u) = degree(prevAdj, lastCall.u) + 1
             /\ degree(adj, lastCall.v) = degree(prevAdj, lastCall.v) + 1)
    /\ \A u \in GraphUsers \ mentioned : degree(adj, u) = 0

-----------------------------------------------------------------------------
(* The dictionary and the graph as main has built them before the first post *)

\* the graph after the first n addEdge calls of main
RECURSIVE EdgesAdded(_, _)
EdgesAdded(edges, n) ==
    IF n = 0 THEN <<>>
    ELSE addEdge(EdgesAdded(edges, n - 1), edges[n][1], edges[n][2])

\* the tree after the first n insertAVL calls of main
RECURSIVE WordsInserted(_, _)
WordsInserted(words, n) ==
    IF n = 0 THEN NULL
    ELSE insertAVL(WordsInserted(words, n - 1), words[n])

\* C12: once the loop over the posts has begun, the adjacency map (its keys
\* and every neighbor list) and the dictionary tree are what they were when
\* it began, whoever the authors of the posts scored so far are.
C12_ScoringReadOnly ==
    (pc # "idle" /\ pi > 1) =>
        /\ adj = EdgesAdded(input.edges, Len(input.edges))
        /\ bannedWords = WordsInserted(input.words, Len(input.words))

-----------------------------------------------------------------------------
\* main is run on what the source gives it
IsReference ==
    /\ pc # "idle"
    /\ input.words = RefWords
    /\ input.bannedPhrases = RefPhrases
    /\ input.userReputation = RefReputation
    /\ input.edges = RefEdges
    /\ input.posts = RefPosts

\* the user names of a sequence of FlaggedPosts
Usernames(s) == [k \in 1..Len(s) |-> s[k].username]

\* s is the start of t
IsPrefix(s, t) == Len(s) <= Len(t) /\ s = SubSeq(t, 1, Len(s))

\* C13: on the source's words, phrases, reputations, edges and posts, the
\* severities are alice 0, bob 2, botuser 3, charlie 1; alice's post is not
\* flagged, bob's and charlie's are LOW and botuser's is MEDIUM; and the queue
\* is drained in the order botuser, bob, charlie.
C13_Reference ==
    IsReference =>
        /\ \A k \in 1..Len(scored) :
              /\ scored[k].user = <<"alice", "bob", "botuser", "charlie">>[k]
              /\ scored[k].severity = <<0, 2, 3, 1>>[k]
        /\ \A k \in 1..Len(Entries) :
              /\ Entries[k].username \in {"bob", "botuser", "charlie"}
              /\ Entries[k].username = "bob" =>
                    Entries[k].severity = 2 /\ Entries[k].priority = "LOW"
              /\ Entries[k].username = "botuser" =>
                    Entries[k].severity = 3 /\ Entries[k].priority = "MEDIUM"
              /\ Entries[k].username = "charlie" =>
                    Entries[k].severity = 1 /\ Entries[k].priority = "LOW"
        /\ IsPrefix(Usernames(report), <<"botuser", "bob", "charlie">>)
        /\ pc = "done" => Usernames(report) = <<"botuser", "bob", "charlie">>

\* main returned from the source's run with its three flagged posts reported
C13_Witness ==
    /\ IsReference
    /\ pc = "done"
    /\ Len(scored) = 4
    /\ Usernames(report) = <<"botuser", "bob", "charlie">>

-----------------------------------------------------------------------------
\* the user is in no reputation table and at no end of an edge
IsUnknown(u) == u \notin DOMAIN input.userReputation /\ GraphDegree(u) = 0

\* C14: a post of a user absent from the reputation table and from the graph
\* is scored with reputation 0 and isBot true, gets the penalty of 2 and the
\* penalty of 1, so has severity 3 or more whatever its content, and is
\* flagged MEDIUM or HIGH with isBot true and reputation 0 in its FlaggedPost.
C14_UnknownUser ==
    \A k \in 1..Len(scored) :
        IsUnknown(scored[k].user) =>
            /\ scored[k].rep = 0
            /\ scored[k].isBot
            /\ botSeverity(scored[k].isBot) = 2
            /\ lowReputationSeverity(scored[k].rep) = 1
            /\ scored[k].severity >= 3
            /\ \E l \in 1..Len(Entries) :
                  /\ Entries[l].username = scored[k].user
                  /\ Entries[l].content = scored[k].content
                  /\ Entries[l].severity = scored[k].severity
                  /\ Entries[l].priority \in {"MEDIUM", "HIGH"}
                  /\ Entries[l].isBot
                  /\ Entries[l].reputation = 0

\* two unknown users were reported: one whose post hits nothing, of severity
\* 3 and MEDIUM, and one whose post is HIGH
C14_Witness ==
    /\ pc = "done"
    /\ \E k \in 1..Len(report) :
          /\ IsUnknown(report[k].username)
          /\ report[k].severity = 3
          /\ report[k].priority = "MEDIUM"
          /\ report[k].isBot
          /\ report[k].reputation = 0
    /\ \E k \in 1..Len(report) :
          /\ IsUnknown(report[k].username)
          /\ report[k].priority = "HIGH"

-----------------------------------------------------------------------------
\* the content with every capital letter A-Z replaced by its small letter:
\* two contents differ only in the case of their letters exactly when this
\* form of them is the same
CaseFolded(c) == [k \in 1..Len(c) |-> IF c[k] \in 65..90 THEN c[k] + 32 ELSE c[k]]

\* the severity main gives a content of the author of the post scored last
SeverityOf(user, content) ==
    scorePost([user |-> user, content |-> content], bannedWords,
              input.bannedPhrases, adj, input.userReputation).severity

\* C15: the severity of a post is the severity its author's post would get
\* with every letter of the content in lower case, so contents that differ
\* only in letter case get the same severity, for the word hits and for the
\* phrase hits alike.
C15_CaseInsensitive ==
    Len(scored) > 0 =>
        LET sc == scored[Len(scored)]
        IN  sc.severity = SeverityOf(sc.user, CaseFolded(sc.content))

\* the post scored has capital letters, a token that is a banned word only
\* once lower-cased and a phrase that occurs only in the lower-cased content
C15_Witness ==
    /\ Len(scored) > 0
    /\ LET c == scored[Len(scored)].content
       IN  /\ c # CaseFolded(c)
           /\ \E a \in TokenStarts(c) :
                  /\ TokenAt(c, a) \notin Dictionary
                  /\ CaseFolded(TokenAt(c, a)) \in Dictionary
           /\ \E k \in 1..Len(input.bannedPhrases) :
                  /\ input.bannedPhrases[k] # <<>>
                  /\ ~(\E i \in 0..Len(c) : MatchesAt(c, input.bannedPhrases[k], i))
                  /\ \E i \in 0..Len(c) :
                        MatchesAt(CaseFolded(c), input.bannedPhrases[k], i)

-----------------------------------------------------------------------------
\* the first k characters of s are its last k characters, and are not all of s
IsBorder(s, k) ==
    /\ k \in 0..(Len(s) - 1)
    /\ SubSeq(s, 1, k) = SubSeq(s, Len(s) - k + 1, Len(s))

\* the length of the longest proper prefix of s that is also a suffix of s
LongestBorder(s) ==
    CHOOSE k \in 0..(Len(s) - 1) :
        IsBorder(s, k) /\ \A j \in (k + 1)..(Len(s) - 1) : ~IsBorder(s, j)

\* C16: for a pattern that is not empty, computeLPS returns a table as long
\* as the pattern whose entry i is the length of the longest proper prefix of
\* pattern[0..i] that is also its suffix; entry 0 is 0 and entry i is in 0..i.
C16_LpsTable ==
    (kpc \in {"match", "done"} /\ pattern # <<>>) =>
        /\ computeLPS(pattern) = lpsFrame.lps
        /\ Len(lpsFrame.lps) = Len(pattern)
        /\ \A i \in 0..(Len(pattern) - 1) :
              /\ lpsFrame.lps[i + 1] = LongestBorder(SubSeq(pattern, 1, i + 1))
              /\ lpsFrame.lps[i + 1] \in 0..i
        /\ lpsFrame.lps[1] = 0

\* computeLPS returned the table of "aabaaa", on which len falls back from 2
\* to lps[1] = 1 and the last character then matches
C16_Witness ==
    /\ kpc = "match"
    /\ pattern = <<97, 97, 98, 97, 97, 97>>
    /\ lpsFrame.lps = <<0, 1, 0, 1, 2, 2>>

-----------------------------------------------------------------------------
\* the height a child stores, an absent child counting 0
StoredHeight(t) == IF t = NULL THEN 0 ELSE t.height

\* every node stores 1 + the greater of the heights its children store, which
\* is the height of its subtree
RECURSIVE HeightsExact(_)
HeightsExact(t) ==
    \/ t = NULL
    \/ /\ t.height = 1 + Max(StoredHeight(t.left), StoredHeight(t.right))
       /\ t.height = TrueHeight(t)
       /\ HeightsExact(t.left)
       /\ HeightsExact(t.right)

\* the keys of the nodes without children
RECURSIVE LeafKeys(_)
LeafKeys(t) ==
    IF t = NULL THEN {}
    ELSE IF t.left = NULL /\ t.right = NULL THEN {t.key}
    ELSE LeafKeys(t.left) \cup LeafKeys(t.right)

\* C17: after every insertAVL call, with no rotation, a single or a double
\* one, the height stored in every node is 1 + the greater of the heights of
\* its children (0 for an absent child), which is the true height of its
\* subtree.
C17_HeightsExact == HeightsExact(root)

\* the last word of a full dictionary was inserted by a double rotation, which
\* alone leaves a new key above other nodes, in a tree of height 3
C17_Witness ==
    /\ lastKey # NoKey
    /\ lastKey \notin Keys(prevRoot)
    /\ lastKey \notin LeafKeys(root)
    /\ Cardinality(inserted) = MaxDict
    /\ root.height = 3

-----------------------------------------------------------------------------
\* C18: in every iteration of the loop of findPatternOccurrences the text
\* index stays or goes up by one and never down; when the pattern index is not
\* what the comparison left it (j, or j + 1 after equal characters), it has
\* fallen back to lps[j - 1], below where it was; the table is not written.
C18_TextIndexMonotone ==
    [][ (kpc = "match" /\ kpc' = "match") =>
          LET f  == findFrame
              g  == findFrame'
              j1 == IF At(pattern, f.j) = At(text, f.i) THEN f.j + 1 ELSE f.j
          IN  /\ g.i \in {f.i, f.i + 1}
              /\ g.i <= Len(text)
              /\ g.j # j1 => (j1 > 0 /\ g.j = f.lps[(j1 - 1) + 1] /\ g.j < j1)
              /\ g.lps = f.lps ]_vars

\* in "aabaabaaa" the match of "aabaaa" failed at text index 5 with five
\* characters matched: the pattern index fell back to lps[4] = 2 and the text
\* index stayed at 5
C18_Witness ==
    /\ kpc = "match"
    /\ text = <<97, 97, 98, 97, 97, 98, 97, 97, 97>>
    /\ pattern = <<97, 97, 98, 97, 97, 97>>
    /\ findFrame.i = 5
    /\ findFrame.j = 2
    /\ findFrame.occurrences = <<>>

-----------------------------------------------------------------------------
\* C19: every call of the matcher returns, for every text and pattern; every
\* iteration of computeLPS's loop either advances i or leaves i and makes len
\* smaller, and every iteration of findPatternOccurrences's loop either
\* advances the text index i or leaves i and makes the pattern index j smaller.
C19_Terminates ==
    /\ <>(kpc = "done")
    /\ [][ /\ (kpc = "lps" /\ kpc' = "lps") =>
                \/ lpsFrame'.i = lpsFrame.i + 1
                \/ /\ lpsFrame'.i = lpsFrame.i
                   /\ lpsFrame'.len \in 0..(lpsFrame.len - 1)
           /\ (kpc = "match" /\ kpc' = "match") =>
                \/ findFrame'.i = findFrame.i + 1
                \/ /\ findFrame'.i = findFrame.i
                   /\ findFrame'.j \in 0..(findFrame.j - 1) ]_vars

\* the search of "ababb" in "abababb" returned its one match, after both
\* loops had fallen back
C19_Witness ==
    /\ kpc = "done"
    /\ text = <<97, 98, 97, 98, 97, 98, 98>>
    /\ pattern = <<97, 98, 97, 98, 98>>
    /\ lpsFrame.lps = <<0, 0, 1, 2, 0>>
    /\ findFrame.occurrences = <<2>>

-----------------------------------------------------------------------------
\* u's neighbor list, empty for a user that is no key
Neighbors(g, u) == IF u \in DOMAIN g THEN g[u] ELSE <<>>

\* C20: after any addEdge calls, for all users u and v, v is in u's neighbor
\* list as many times as u is in v's.
C20_Symmetric ==
    /\ DOMAIN adj \subseteq GraphUsers
    /\ \A u, v \in GraphUsers :
          Count(Neighbors(adj, u), v) = Count(Neighbors(adj, v), u)

\* one edge was added twice and another once: two users are twice in each
\* other's list
C20_Witness ==
    /\ ncalls = MaxEdges
    /\ \E u, v, w \in GraphUsers :
          /\ u # v /\ w # u /\ w # v
          /\ Neighbors(adj, u) = <<v, v, w>>
          /\ Neighbors(adj, v) = <<u, u>>
          /\ Neighbors(adj, w) = <<u>>

-----------------------------------------------------------------------------
\* the tier of a severity: HIGH from 6, MEDIUM from 3, LOW below
Tier(severity) ==
    IF severity >= 6 THEN "HIGH" ELSE IF severity >= 3 THEN "MEDIUM" ELSE "LOW"

\* e is a well-formed FlaggedPost of a post main was given
ConsistentPost(e) ==
    /\ e.severity >= 1
    /\ e.priority = Tier(e.severity)
    /\ \E k \in 1..Len(input.posts) :
          /\ input.posts[k].user = e.username
          /\ input.posts[k].content = e.content

\* q1 is q with its entry k taken out and nothing else touched
Without(q, k, q1) ==
    /\ Len(q1) = Len(q) - 1
    /\ \A l \in 1..Len(q1) : q1[l] = IF l < k THEN q[l] ELSE q[l + 1]

\* C21: every entry of the review queue has its FlaggedPost's severity as its
\* key, a severity of 1 or more, the priority of that severity and the text of
\* a post as it was given; and every step leaves the entries as they are: it
\* pushes one entry behind the others, or pops one entry, which is reported
\* field for field as it was pushed, or does not touch the queue or the report.
C21_EntriesConsistent ==
    /\ [](/\ \A l \in 1..Len(flaggedQueue) :
               /\ flaggedQueue[l].first = flaggedQueue[l].second.severity
               /\ ConsistentPost(flaggedQueue[l].second)
           /\ \A k \in 1..Len(report) : ConsistentPost(report[k]))
    /\ [][ \/ /\ flaggedQueue' = flaggedQueue
              /\ report' = report
           \/ /\ Len(flaggedQueue') = Len(flaggedQueue) + 1
              /\ SubSeq(flaggedQueue', 1, Len(flaggedQueue)) = flaggedQueue
              /\ report' = report
           \/ \E k \in 1..Len(flaggedQueue) :
                 /\ Without(flaggedQueue, k, flaggedQueue')
                 /\ report' = Append(report, flaggedQueue[k].second) ]_vars

\* a post with capital letters was pushed, popped and reported HIGH with its
\* text as posted, while a post pushed before it is still queued
C21_Witness ==
    /\ Len(report) = 1
    /\ Len(flaggedQueue) >= 1
    /\ report[1].content = LoudPost.content
    /\ report[1].content # CaseFolded(report[1].content)
    /\ report[1].priority = "HIGH"
    /\ scored[1].user = flaggedQueue[1].second.username
    /\ flaggedQueue[1].first < report[1].severity

-----------------------------------------------------------------------------
\* the access <<array, index>> is to an element the array has, for a table
\* lps as long as it is
InBounds(a, lps) ==
    /\ a[2] >= 0
    /\ a[1] = "pattern" => a[2] < Len(pattern)
    /\ a[1] = "text" => a[2] < Len(text)
    /\ a[1] = "lps" => a[2] < Len(lps) /\ a[2] <= Len(pattern) - 1

\* C22: in every iteration of either loop of the matcher, for every text and
\* every pattern that is not empty, each pattern[..] read has its index in
\* 0..len(pattern)-1, each text[..] read in 0..len(text)-1, and each lps[..]
\* read or written in 0..len(pattern)-1, the table being that long.
C22_InBounds ==
    /\ (kpc = "lps" /\ lpsFrame.i < Len(pattern)) =>
          /\ Len(lpsFrame.lps) = Len(pattern)
          /\ \A a \in computeLPSAccesses(pattern, lpsFrame) :
                InBounds(a, lpsFrame.lps)
    /\ (kpc = "match" /\ findFrame.i < Len(text)) =>
          /\ Len(findFrame.lps) = Len(pattern)
          /\ \A a \in findAccesses(text, pattern, findFrame) :
                InBounds(a, findFrame.lps)

\* the iteration about to run completes a match at the last character of the
\* longest text: it reads text[n - 1], pattern[m - 1] and lps[m - 1]
C22_Witness ==
    /\ kpc = "match"
    /\ Len(text) = MaxTextLen
    /\ Len(pattern) >= 2
    /\ findFrame.i = Len(text) - 1
    /\ findFrame.j = Len(pattern) - 1
    /\ <<"lps", Len(pattern) - 1>> \in findAccesses(text, pattern, findFrame)

====
